---- MODULE Spec2Model ----
(***************************************************************************)
(* Model of scrape_polls.py: the extraction of the embedded "polls" JSON   *)
(* arrays from an HTML text (extract_json_polls, extract_all_polls) and    *)
(* the branch extract_poll_table takes on the aggregated result.           *)
(*                                                                         *)
(* A text is a sequence of one-character strings.  Offsets are Python      *)
(* offsets (0-based); At(t, k) is t[k].                                    *)
(***************************************************************************)
EXTENDS Integers, Sequences, FiniteSets, TLC

VARIABLES
    text,           \* html_content
    pc,             \* position in extract_poll_table / extract_all_polls / extract_json_polls
    start_pos,      \* extract_all_polls: start_pos
    all_polls,      \* extract_all_polls: all_polls
    table_num,      \* extract_all_polls: table_num
    polls_start,    \* extract_json_polls: polls_start (-1: not found)
    array_start,    \* extract_json_polls: array_start
    escaped,        \* extract_json_polls: escaped
    bracket_count,  \* extract_json_polls: bracket_count
    in_string,      \* extract_json_polls: in_string
    i,              \* extract_json_polls: i
    ret,            \* the pair returned by the last call of extract_json_polls
    result,         \* the value returned by extract_all_polls
    path,           \* the branch extract_poll_table took ("" before it is decided)
    out,            \* the lines printed so far
    spans,          \* history: the spans decoded so far, <<array_start, end, escaped>>
    rt_in,          \* round trip: the string s
    rt_esc,         \* round trip: the escaped form of s
    rt_out,         \* round trip: the un-escaped escaped form
    fm_in,          \* format_polls_data on its own: polls
    rows            \* what format_polls_data gave: the rows, or that it raised

vars == <<text, pc, start_pos, all_polls, table_num, polls_start, array_start,
          escaped, bracket_count, in_string, i, ret, result, path, out, spans,
          rt_in, rt_esc, rt_out, fm_in, rows>>

----------------------------------------------------------------------------
(* Characters and Python's string operations *)

BS == "\\"
QT == "\""

At(t, k) == t[k + 1]

\* t[a:b] for 0 <= a and b <= len(t)
Slice(t, a, b) == IF b <= a THEN <<>> ELSE SubSeq(t, a + 1, b)

\* t[p:p+len(pat)] == pat
MatchAt(t, pat, p) ==
    /\ p >= 0
    /\ p + Len(pat) <= Len(t)
    /\ \A k \in 1..Len(pat) : t[p + k] = pat[k]

\* F(e), with e evaluated once
Bind(e, F(_)) == CHOOSE r \in {F(x) : x \in {e}} : TRUE

\* the lowest offset in from..Len(t) where Stop holds
First(t, from, Stop(_)) ==
    CHOOSE q \in from..Len(t) : Stop(q) /\ \A r \in from..(q - 1) : ~Stop(r)

\* str.find(pat, start) that forgets its start argument
FindIgnoringStart(t, pat, start) ==
    IF \E p \in 0..Len(t) : MatchAt(t, pat, p)
    THEN First(t, 0, LAMBDA p : MatchAt(t, pat, p))
    ELSE -1

\* str.find(pat, start): the lowest offset >= start where pat occurs, or -1
Find(t, pat, start) ==
    IF \E p \in start..Len(t) : MatchAt(t, pat, p)
    THEN First(t, start, LAMBDA p : MatchAt(t, pat, p))
    ELSE -1

\* the concatenation of pieces[lo], ..., pieces[hi]
RECURSIVE Flatten(_, _, _)
Flatten(pieces, lo, hi) ==
    IF lo > hi THEN <<>>
    ELSE IF lo = hi THEN pieces[lo]
    ELSE Bind((lo + hi) \div 2, LAMBDA mid :
            Flatten(pieces, lo, mid) \o Flatten(pieces, mid + 1, hi))

\* the number of occurrences at the consecutive offsets right before the k-th character
Run(occ, k) ==
    IF \A q \in 1..(k - 1) : occ[q] THEN k - 1
    ELSE k - 1 - (CHOOSE q \in 1..(k - 1) : ~occ[q] /\ \A r \in (q + 1)..(k - 1) : occ[r])

\* str.replace(old, new) for an old of one or two characters: the occurrences of old
\* are replaced left to right, none overlapping the one taken before it, so of a run
\* of occurrences at consecutive offsets of a two-character old every second is taken
Replace(str, old, new) ==
    Bind(str, LAMBDA t :
    Bind([k \in 1..Len(t) |-> MatchAt(t, old, k - 1)] \o <<>>, LAMBDA occ :
    Bind([k \in 1..Len(t) |-> occ[k] /\ (Len(old) = 1 \/ Run(occ, k) % 2 = 0)] \o <<>>,
         LAMBDA taken :
    Bind([k \in 1..Len(t) |->
            IF taken[k] THEN new
            ELSE IF Len(old) = 2 /\ k > 1 /\ taken[k - 1] THEN <<>>
            ELSE <<t[k]>>] \o <<>>, LAMBDA pieces :
        Flatten(pieces, 1, Len(pieces))))))

----------------------------------------------------------------------------
(* json.loads, as the standard decoder reads a text (strict mode).         *)
(* A decoded value is a node [t, s, keys, kids]:                           *)
(*   t = "obj": keys are the member names in insertion order, kids their   *)
(*              values;   t = "arr": kids are the elements;                *)
(*   t = "str": s is the decoded content;  t = "num", "lit": s is the      *)
(*              lexeme (numeric equality of different lexemes and the      *)
(*              decoding of \uXXXX to a code point are not modelled: a     *)
(*              \uXXXX escape is kept as the six characters read).         *)

Node(t, s, keys, kids) == [t |-> t, s |-> s, keys |-> keys, kids |-> kids]

NullNode == Node("lit", <<>>, <<>>, <<>>)

Fail == [ok |-> FALSE, pos |-> 0, val |-> NullNode]

Ok(p, v) == [ok |-> TRUE, pos |-> p, val |-> v]

WS == {" ", "\t", "\n", "\r"}

Control == {"\t", "\n", "\r", "\f"}

Digits == {"0", "1", "2", "3", "4", "5", "6", "7", "8", "9"}

HexDigits == Digits \cup {"a", "b", "c", "d", "e", "f", "A", "B", "C", "D", "E", "F"}

\* the escapes of json.decoder.BACKSLASH; "\\b" stands for the backspace character
SimpleEscapes == {QT, BS, "/", "b", "f", "n", "r", "t"}

Unescaped(c) ==
    CASE c = "b" -> "\\b"
      [] c = "f" -> "\f"
      [] c = "n" -> "\n"
      [] c = "r" -> "\r"
      [] c = "t" -> "\t"
      [] OTHER -> c

Literals == { <<"n", "u", "l", "l">>, <<"t", "r", "u", "e">>, <<"f", "a", "l", "s", "e">>,
              <<"N", "a", "N">>, <<"I", "n", "f", "i", "n", "i", "t", "y">>,
              <<"-", "I", "n", "f", "i", "n", "i", "t", "y">> }

\* s[p:p+1]
CharAt(s, p) == IF p >= 0 /\ p < Len(s) THEN At(s, p) ELSE ""

\* the offset after the white space at p
SkipWs(s, p) == First(s, p, LAMBDA q : CharAt(s, q) \notin WS)

\* the offset after the digits at p
DigitsEnd(s, p) == First(s, p, LAMBDA q : CharAt(s, q) \notin Digits)

\* NUMBER_RE.match(s, p).end(), or -1 when there is no match
NumberEnd(s, p) ==
    LET a == IF CharAt(s, p) = "-" THEN p + 1 ELSE p
        b == IF CharAt(s, a) = "0" THEN a + 1 ELSE DigitsEnd(s, a)
        c == IF CharAt(s, b) = "." /\ DigitsEnd(s, b + 1) > b + 1
             THEN DigitsEnd(s, b + 1) ELSE b
        d == IF CharAt(s, c + 1) \in {"+", "-"} THEN c + 2 ELSE c + 1
        e == IF CharAt(s, c) \in {"e", "E"} /\ DigitsEnd(s, d) > d
             THEN DigitsEnd(s, d) ELSE c
    IN  IF b = a THEN -1 ELSE e

\* py_scanstring from the offset after the opening quote
RECURSIVE ScanString(_, _, _)
ScanString(str, from, sofar) ==
    Bind(<<from, sofar, CharAt(str, from), CharAt(str, from + 1), str>>, LAMBDA a :
        LET p == a[1]
            acc == a[2]
            c == a[3]
            esc == a[4]
            s == a[5]
        IN  IF c = "" THEN Fail
            ELSE IF c = QT THEN Ok(p + 1, Node("str", acc, <<>>, <<>>))
            ELSE IF c \in Control THEN Fail
            ELSE IF c # BS THEN ScanString(s, p + 1, Append(acc, c))
            ELSE IF esc \in SimpleEscapes
                 THEN ScanString(s, p + 2, Append(acc, Unescaped(esc)))
            ELSE IF esc = "u" /\ \A k \in 2..5 : CharAt(s, p + k) \in HexDigits
                 THEN ScanString(s, p + 6, acc \o Slice(s, p, p + 6))
            ELSE Fail)

\* dict(pairs): a repeated key keeps its first position and takes the last value
AddPair(keys, kids, k, v) ==
    IF \E n \in 1..Len(keys) : keys[n] = k
    THEN <<keys, [n \in 1..Len(kids) |-> IF keys[n] = k THEN v ELSE kids[n]] \o <<>>>>
    ELSE <<Append(keys, k), Append(kids, v)>>

RECURSIVE ParseValue(_, _)
RECURSIVE ArrayElems(_, _, _)
RECURSIVE Members(_, _, _, _)

\* JSONArray from the offset after "["
ParseArray(s, p) ==
    Bind(SkipWs(s, p), LAMBDA q :
        IF CharAt(s, q) = "]" THEN Ok(q + 1, Node("arr", <<>>, <<>>, <<>>))
        ELSE ArrayElems(s, q, <<>>))

ArrayElems(str, p, sofar) ==
    Bind(<<ParseValue(str, p), sofar, str>>, LAMBDA a :
        LET v == a[1]
            acc == a[2]
            s == a[3]
        IN  IF ~v.ok THEN Fail
            ELSE Bind(SkipWs(s, v.pos), LAMBDA q :
                    IF CharAt(s, q) = "]"
                    THEN Ok(q + 1, Node("arr", <<>>, <<>>, Append(acc, v.val)))
                    ELSE IF CharAt(s, q) = ","
                    THEN ArrayElems(s, SkipWs(s, q + 1), Append(acc, v.val))
                    ELSE Fail))

\* JSONObject from the offset after "{"
ParseObject(s, p) ==
    Bind(SkipWs(s, p), LAMBDA q :
        IF CharAt(s, q) = "}" THEN Ok(q + 1, Node("obj", <<>>, <<>>, <<>>))
        ELSE IF CharAt(s, q) = QT THEN Members(s, q + 1, <<>>, <<>>)
        ELSE Fail)

\* the value of a member, from the offset q after its key, and what follows it
MemberValue(s, q, keys, kids, key) ==
    IF CharAt(s, q) # ":" THEN Fail
    ELSE Bind(ParseValue(s, SkipWs(s, q + 1)), LAMBDA v :
            IF ~v.ok THEN Fail
            ELSE Bind(<<SkipWs(s, v.pos), AddPair(keys, kids, key, v.val)>>, LAMBDA a :
                    LET r == a[1]
                        kv == a[2]
                    IN  IF CharAt(s, r) = "}" THEN Ok(r + 1, Node("obj", <<>>, kv[1], kv[2]))
                        ELSE IF CharAt(s, r) = "," /\ CharAt(s, SkipWs(s, r + 1)) = QT
                        THEN Members(s, SkipWs(s, r + 1) + 1, kv[1], kv[2])
                        ELSE Fail))

\* the members of an object from the offset after the opening quote of a key
Members(str, p, keysofar, kidsofar) ==
    Bind(<<ScanString(str, p, <<>>), keysofar, kidsofar, str>>, LAMBDA a :
        LET k == a[1]
        IN  IF ~k.ok THEN Fail
            ELSE MemberValue(a[4], SkipWs(a[4], k.pos), a[2], a[3], k.val.s))

\* scan_once
ParseValue(str, from) ==
    Bind(<<from, CharAt(str, from), NumberEnd(str, from), str>>, LAMBDA a :
        LET p == a[1]
            c == a[2]
            n == a[3]
            s == a[4]
        IN  IF c = "" THEN Fail
            ELSE IF c = QT THEN ScanString(s, p + 1, <<>>)
            ELSE IF c = "{" THEN ParseObject(s, p + 1)
            ELSE IF c = "[" THEN ParseArray(s, p + 1)
            ELSE IF \E l \in Literals : l[1] \in {"n", "t", "f"} /\ MatchAt(s, l, p)
                 THEN LET l == CHOOSE l \in Literals :
                                   l[1] \in {"n", "t", "f"} /\ MatchAt(s, l, p)
                      IN  Ok(p + Len(l), Node("lit", l, <<>>, <<>>))
            ELSE IF n # -1 THEN Ok(n, Node("num", Slice(s, p, n), <<>>, <<>>))
            ELSE IF \E l \in Literals : MatchAt(s, l, p)
                 THEN LET l == CHOOSE l \in Literals : MatchAt(s, l, p)
                      IN  Ok(p + Len(l), Node("lit", l, <<>>, <<>>))
            ELSE Fail)

\* json.loads(s): one value, white space around it, nothing after it
JsonLoads(str) ==
    Bind(str, LAMBDA s :
        Bind(ParseValue(s, SkipWs(s, 0)), LAMBDA v :
            IF v.ok /\ SkipWs(s, v.pos) = Len(s) THEN v ELSE Fail))

----------------------------------------------------------------------------
(* extract_json_polls and extract_all_polls *)

\* '\\"polls\\":[' and '"polls":['
EscAnchor == <<BS, QT, "p", "o", "l", "l", "s", BS, QT, ":", "[">>

UnAnchor == <<QT, "p", "o", "l", "l", "s", QT, ":", "[">>

\* Python's None and a list, as one kind of value
NoneVal == [none |-> TRUE, items |-> <<>>]

Some(x) == [none |-> FALSE, items |-> x]

\* return None, -1
NotFound == [polls |-> NoneVal, end |-> -1]

\* the locator that tries the unescaped anchor first
LocateUnescapedFirst(t, start) ==
    LET e == Find(t, EscAnchor, start)
        u == Find(t, UnAnchor, start)
    IN  IF u # -1
        THEN [polls_start |-> u, array_start |-> u + Len(UnAnchor) - 1, escaped |-> FALSE]
        ELSE IF e # -1
        THEN [polls_start |-> e, array_start |-> e + Len(EscAnchor) - 1, escaped |-> TRUE]
        ELSE [polls_start |-> -1, array_start |-> 0, escaped |-> FALSE]

\* the locator step: the escaped anchor from start_pos on, else the unescaped one
Locate(t, start) ==
    LET e == Find(t, EscAnchor, start)
        u == Find(t, UnAnchor, start)
    IN  IF e # -1
        THEN [polls_start |-> e, array_start |-> e + Len(EscAnchor) - 1, escaped |-> TRUE]
        ELSE IF u # -1
        THEN [polls_start |-> u, array_start |-> u + Len(UnAnchor) - 1, escaped |-> FALSE]
        ELSE [polls_start |-> -1, array_start |-> 0, escaped |-> FALSE]

\* escaped mode: html_content[i:i+2] == '\\"' with i + 1 < len(html_content)
EscapedQuoteAt(t, esc, k) == esc /\ k + 1 < Len(t) /\ MatchAt(t, <<BS, QT>>, k)

\* the quote rule that lets every '"' flip the flag
FlagAfterEveryQuote(t, esc, ins, k) ==
    IF ~esc /\ At(t, k) = QT THEN ~ins ELSE ins

\* unescaped mode: the in-string flag after the quote rule has looked at t[k]
FlagAfter(t, esc, ins, k) ==
    IF ~esc /\ At(t, k) = QT /\ ~(k > 0 /\ At(t, k - 1) = BS) THEN ~ins ELSE ins

\* the bracket counter that also counts brackets inside string literals
CountAfterIgnoringStrings(c, ins, n) ==
    IF c = "[" THEN n + 1 ELSE IF c = "]" THEN n - 1 ELSE n

\* the bracket counter after character c, read with the in-string flag ins
CountAfter(c, ins, n) ==
    IF ins THEN n
    ELSE IF c = "[" THEN n + 1
    ELSE IF c = "]" THEN n - 1
    ELSE n

\* the un-escaping that stops after the quotes
UnescapeQuotesOnly(js) == Replace(js, <<BS, QT>>, <<QT>>)

\* json_str.replace('\\"', '"').replace('\\\\', '\\')
Unescape(js) == Replace(Replace(js, <<BS, QT>>, <<QT>>), <<BS, BS>>, <<BS>>)

\* isinstance(p, dict)
IsDict(p) == p.t = "obj"

\* a filter that keeps every element
KeepAll(polls) == polls

\* [p for p in polls if isinstance(p, dict)]
FilterDicts(polls) == SelectSeq(polls, IsDict)

\* the text handed to json.loads
JsonStr(span, esc) == IF esc THEN Unescape(span) ELSE span

\* a decoder that returns an empty list, and goes on, when the span does not parse
ReturnSkippingErrors(parsed, k) ==
    IF parsed.ok THEN [polls |-> Some(FilterDicts(parsed.val.kids)), end |-> k + 1]
    ELSE [polls |-> Some(<<>>), end |-> k + 1]

\* a decoder that returns None for an array without object elements
ReturnNoneWhenEmpty(parsed, k) ==
    IF parsed.ok /\ FilterDicts(parsed.val.kids) # <<>>
    THEN [polls |-> Some(FilterDicts(parsed.val.kids)), end |-> k + 1]
    ELSE NotFound

\* what extract_json_polls returns once the bracket at offset k closed the array
ReturnAfterClose(parsed, k) ==
    IF parsed.ok THEN [polls |-> Some(FilterDicts(parsed.val.kids)), end |-> k + 1]
    ELSE NotFound

\* the return of extract_all_polls that forgets what it accumulated
ReturnNothing(polls) == NoneVal

\* all_polls if all_polls else None
ReturnAll(polls) == IF polls # <<>> THEN Some(polls) ELSE NoneVal

\* if polls_data:
Truthy(v) == ~v.none /\ v.items # <<>>

TableLine(n, k) == [kind |-> "table", num |-> n, count |-> k]

ParseErrorLine == [kind |-> "parse_error", num |-> 0, count |-> 0]

----------------------------------------------------------------------------
(* format_polls_data *)

\* the keys format_polls_data reads
KeyPollster == <<"p", "o", "l", "l", "s", "t", "e", "r">>

KeyGroup == <<"p", "o", "l", "l", "s", "t", "e", "r", "_", "g", "r", "o", "u", "p", "_",
              "n", "a", "m", "e">>

KeyDate == <<"d", "a", "t", "e">>

KeySample == <<"s", "a", "m", "p", "l", "e", "S", "i", "z", "e">>

KeyCandidate == <<"c", "a", "n", "d", "i", "d", "a", "t", "e">>

KeyName == <<"n", "a", "m", "e">>

KeyValue == <<"v", "a", "l", "u", "e">>

KeySpread == <<"s", "p", "r", "e", "a", "d">>

\* ''
EmptyStr == Node("str", <<>>, <<>>, <<>>)

\* []
EmptyList == Node("arr", <<>>, <<>>, <<>>)

\* {}
EmptyDict == Node("obj", <<>>, <<>>, <<>>)

\* key in d
Has(d, key) == \E n \in 1..Len(d.keys) : d.keys[n] = key

\* d.get(key), which gives None for a key that is absent
GetOrNone(d, key, default) ==
    IF Has(d, key) THEN d.kids[CHOOSE n \in 1..Len(d.keys) : d.keys[n] = key] ELSE NullNode

\* d.get(key, default)
Get(d, key, default) ==
    IF Has(d, key) THEN d.kids[CHOOSE n \in 1..Len(d.keys) : d.keys[n] = key] ELSE default

Upper == <<"A", "B", "C", "D", "E", "F", "G", "H", "I", "J", "K", "L", "M", "N", "O", "P",
           "Q", "R", "S", "T", "U", "V", "W", "X", "Y", "Z">>

Lower == <<"a", "b", "c", "d", "e", "f", "g", "h", "i", "j", "k", "l", "m", "n", "o", "p",
           "q", "r", "s", "t", "u", "v", "w", "x", "y", "z">>

\* c.lower() for one character
LowerChar(c) ==
    IF \E n \in 1..Len(Upper) : Upper[n] = c
    THEN Lower[CHOOSE n \in 1..Len(Upper) : Upper[n] = c]
    ELSE c

\* s.lower()
ToLower(s) == [k \in 1..Len(s) |-> LowerChar(s[k])] \o <<>>

\* sub in s
Contains(s, sub) == \E p \in 0..Len(s) : MatchAt(s, sub, p)

WordApprove == <<"a", "p", "p", "r", "o", "v", "e">>

WordDisapprove == <<"d", "i", "s", "a", "p", "p", "r", "o", "v", "e">>

\* the outcome of a piece of code that may raise
Raised == [raised |-> TRUE, val |-> <<>>]

Done(v) == [raised |-> FALSE, val |-> v]

\* what "for candidate in candidates" iterates over; iterating a number, None, True or
\* False raises TypeError; a string gives its characters and a dict gives its keys
Iterate(c) ==
    CASE c.t = "arr" -> Done(c.kids)
      [] c.t = "obj" -> Done([n \in 1..Len(c.keys) |-> Node("str", c.keys[n], <<>>, <<>>)] \o <<>>)
      [] c.t = "str" -> Done([n \in 1..Len(c.s) |-> Node("str", <<c.s[n]>>, <<>>, <<>>)] \o <<>>)
      [] OTHER -> Raised

\* the loop body whose first test forgets to exclude "disapprove"
StepCandidateNoExclusion(candidate, av) ==
    IF candidate.t # "obj" THEN Raised
    ELSE LET nm == Get(candidate, KeyName, EmptyStr)
             value == Get(candidate, KeyValue, EmptyStr)
         IN  IF nm.t # "str" THEN Raised
             ELSE IF Contains(ToLower(nm.s), WordApprove) THEN Done(<<value, av[2]>>)
             ELSE Done(av)

\* one turn of "for candidate in candidates" on <<approve, disapprove>>; a candidate
\* that is no dict has no get, and a name that is no str has no lower
StepCandidate(candidate, av) ==
    IF candidate.t # "obj" THEN Raised
    ELSE LET nm == Get(candidate, KeyName, EmptyStr)
             value == Get(candidate, KeyValue, EmptyStr)
         IN  IF nm.t # "str" THEN Raised
             ELSE LET name == ToLower(nm.s)
                  IN  IF Contains(name, WordApprove) /\ ~Contains(name, WordDisapprove)
                      THEN Done(<<value, av[2]>>)
                      ELSE IF Contains(name, WordDisapprove)
                      THEN Done(<<av[1], value>>)
                      ELSE Done(av)

\* the loop over the candidates from the k-th on
RECURSIVE ScanCandidates(_, _, _)
ScanCandidates(cands, k, av) ==
    IF k > Len(cands) THEN Done(av)
    ELSE Bind(StepCandidate(cands[k], av), LAMBDA r :
            IF r.raised THEN Raised ELSE ScanCandidates(cands, k + 1, r.val))

\* spread_data.get('value', '') if isinstance(spread_data, dict) else ''
SpreadOf(poll) ==
    LET spread_data == Get(poll, KeySpread, EmptyDict)
    IN  IF spread_data.t = "obj" THEN Get(spread_data, KeyValue, EmptyStr) ELSE EmptyStr

\* the body of "for poll in polls": the row of one poll
FormatPoll(poll) ==
    LET pollster == Get(poll, KeyPollster, Get(poll, KeyGroup, EmptyStr))
        date == Get(poll, KeyDate, EmptyStr)
        sample == Get(poll, KeySample, EmptyStr)
        candidates == Iterate(Get(poll, KeyCandidate, EmptyList))
    IN  IF candidates.raised THEN Raised
        ELSE Bind(ScanCandidates(candidates.val, 1, <<EmptyStr, EmptyStr>>), LAMBDA r :
                IF r.raised THEN Raised
                ELSE Done(<<pollster, date, sample, r.val[1], r.val[2], SpreadOf(poll)>>))

\* the rows of the polls from the k-th on, appended to those made so far
RECURSIVE FormatFrom(_, _, _)
FormatFrom(polls, k, sofar) ==
    IF k > Len(polls) THEN Done(sofar)
    ELSE Bind(FormatPoll(polls[k]), LAMBDA r :
            IF r.raised THEN Raised ELSE FormatFrom(polls, k + 1, Append(sofar, r.val)))

\* format_polls_data(polls): the rows (the headers are fixed), or the exception
FormatPollsData(polls) == FormatFrom(polls, 1, <<>>)

----------------------------------------------------------------------------
(* The texts the extraction is run on *)

MaxBlocks == 2

MaxScan == 5

MaxRT == 5

SeqsUpTo(S, n) == UNION {[1..k -> S] : k \in 0..n}

Concat(ss) == Flatten(ss, 1, Len(ss))

\* the escaped form: every backslash doubled, then every quote prefixed with a backslash
Escape(s) == Replace(Replace(s, <<BS>>, <<BS, BS>>), <<QT>>, <<BS, QT>>)

\* well-formed arrays: [], [{}], [{"a":1}], [1,{"a":1},"a",{}], ["]"]
ArrEmpty == <<"[", "]">>

ArrObj == <<"[", "{", "}", "]">>

ArrRec == <<"[", "{", QT, "a", QT, ":", "1", "}", "]">>

ArrMix == <<"[", "1", ",", "{", QT, "a", QT, ":", "1", "}", ",", QT, "a", QT, ",", "{", "}", "]">>

\* an array cut short and a balanced span that is no JSON: [{}  and  [,]
ArrOpen == <<"[", "{", "}">>

ArrBad == <<"[", ",", "]">>

ArrStr == <<"[", QT, "]", QT, "]">>

WellFormed == {ArrEmpty, ArrObj, ArrRec, ArrMix, ArrStr}

Contents == WellFormed \cup {ArrOpen, ArrBad}

Anchor(esc) == IF esc THEN EscAnchor ELSE UnAnchor

Render(esc, a) == IF esc THEN Escape(a) ELSE a

\* an anchor of form f followed by the array a written in form g
Block(f, g, a) == Anchor(f) \o Tail(Render(g, a))

Junk == <<"a">>

Blocks == {Block(f, g, a) : f \in BOOLEAN, g \in BOOLEAN, a \in Contents} \cup {Junk}

\* documents of up to MaxBlocks blocks
DocTexts == {Concat(bs) : bs \in SeqsUpTo(Blocks, MaxBlocks)}

ScanChars == {"[", "]", QT, BS, "a"}

\* one anchor followed by up to MaxScan characters
ScanTexts == {Anchor(f) \o b : f \in BOOLEAN, b \in SeqsUpTo(ScanChars, MaxScan)}

RTChars == {BS, QT, "a"}

RTStrings == SeqsUpTo(RTChars, MaxRT) \cup WellFormed

----------------------------------------------------------------------------
(* The records format_polls_data is run on *)

MaxCands == 2

\* a field that is absent from a record
Missing == Node("missing", <<>>, <<>>, <<>>)

Str(chars) == Node("str", chars, <<>>, <<>>)

Num(lexeme) == Node("num", lexeme, <<>>, <<>>)

Arr(kids) == Node("arr", <<>>, <<>>, kids)

\* the dict of the keys whose value is not Missing, in the order given
MakeObj(keys, vals) ==
    LET idx == SelectSeq([n \in 1..Len(keys) |-> n] \o <<>>, LAMBDA n : vals[n] # Missing)
    IN  Node("obj", <<>>, [k \in 1..Len(idx) |-> keys[idx[k]]] \o <<>>,
                          [k \in 1..Len(idx) |-> vals[idx[k]]] \o <<>>)

\* names: absent, "Approve", "DISAPPROVE", "x", and a number where a string is expected
EntryNames == {Missing, Str(<<"A", "p", "p", "r", "o", "v", "e">>),
               Str(<<"D", "I", "S", "A", "P", "P", "R", "O", "V", "E">>),
               Str(<<"x">>), Num(<<"7">>)}

EntryValues == {Missing, Num(<<"1">>), Num(<<"2">>)}

\* candidate entries, and a string where a dict is expected
Entries == {MakeObj(<<KeyName, KeyValue>>, <<n, v>>) : n \in EntryNames, v \in EntryValues}
               \cup {Str(<<"x">>)}

\* the candidate field: absent, a list of up to MaxCands entries, or null
CandidateFields == {Missing, NullNode} \cup {Arr(es) : es \in SeqsUpTo(Entries, MaxCands)}

\* the spread field: absent, {}, {"value": -5}, or a string
SpreadFields == {Missing, EmptyDict, MakeObj(<<KeyValue>>, <<Num(<<"-", "5">>)>>),
                 Str(<<"x">>)}

PollKeys == <<KeyPollster, KeyGroup, KeyDate, KeySample, KeyCandidate, KeySpread>>

\* a candidate list with a name in capitals, an entry without name and one without value
SomeCandidates ==
    Arr(<<MakeObj(<<KeyName, KeyValue>>,
                  <<Str(<<"D", "I", "S", "A", "P", "P", "R", "O", "V", "E">>), Num(<<"2">>)>>),
          MakeObj(<<KeyName, KeyValue>>, <<Missing, Num(<<"1">>)>>),
          MakeObj(<<KeyName, KeyValue>>,
                  <<Str(<<"A", "p", "p", "r", "o", "v", "e">>), Missing>>)>>)

\* every subset of the fields with a few candidate lists, and every candidate list
\* with all or none of the other fields
FmtRecords ==
    {MakeObj(PollKeys, <<p, g, d, n, c, sp>>) :
        p \in {Missing, Str(<<"P">>)}, g \in {Missing, Str(<<"G">>)},
        d \in {Missing, Str(<<"D">>)}, n \in {Missing, Num(<<"5">>)},
        c \in {Missing, NullNode, EmptyList, SomeCandidates}, sp \in SpreadFields}
    \cup
    {MakeObj(PollKeys, <<r[1], r[2], r[3], r[4], c, r[5]>>) :
        r \in { <<Missing, Missing, Missing, Missing, Missing>>,
                <<Str(<<"P">>), Str(<<"G">>), Str(<<"D">>), Num(<<"5">>),
                  MakeObj(<<KeyValue>>, <<Num(<<"-", "5">>)>>)>> },
        c \in CandidateFields}

\* a few records, for the lists of two
FmtFew ==
    {MakeObj(PollKeys, <<p, Str(<<"G">>), Missing, Missing, c, Missing>>) :
        p \in {Missing, Str(<<"P">>)},
        c \in {Missing, NullNode,
               Arr(<<MakeObj(<<KeyName, KeyValue>>,
                             <<Str(<<"A", "p", "p", "r", "o", "v", "e">>), Num(<<"1">>)>>)>>)}}

FmtInputs == {<<>>} \cup {<<r>> : r \in FmtRecords} \cup {<<r, q>> : r \in FmtFew, q \in FmtFew}

----------------------------------------------------------------------------
(* The end-to-end example *)

MaxSurround == 1

\* [{"pollster":"Acme","date":"2024-01-01","sampleSize":500,"candidate":[{"name":
\* "Approve","value":45},{"name":"Disapprove","value":50}],"spread":{"value":-5}}]
AcmeArr ==
    <<"[", "{", QT, "p", "o", "l", "l", "s", "t", "e", "r", QT, ":", QT, "A", "c", "m",
      "e", QT, ",", QT, "d", "a", "t", "e", QT, ":", QT, "2", "0", "2", "4", "-", "0",
      "1", "-", "0", "1", QT, ",", QT, "s", "a", "m", "p", "l", "e", "S", "i", "z",
      "e", QT, ":", "5", "0", "0", ",", QT, "c", "a", "n", "d", "i", "d", "a", "t",
      "e", QT, ":", "[", "{", QT, "n", "a", "m", "e", QT, ":", QT, "A", "p", "p", "r",
      "o", "v", "e", QT, ",", QT, "v", "a", "l", "u", "e", QT, ":", "4", "5", "}", ",",
      "{", QT, "n", "a", "m", "e", QT, ":", QT, "D", "i", "s", "a", "p", "p", "r", "o",
      "v", "e", QT, ",", QT, "v", "a", "l", "u", "e", QT, ":", "5", "0", "}", "]", ",",
      QT, "s", "p", "r", "e", "a", "d", QT, ":", "{", QT, "v", "a", "l", "u", "e", QT,
      ":", "-", "5", "}", "}", "]">>

\* the escaped anchor followed by the escaped array
AcmeText == Block(TRUE, TRUE, AcmeArr)

SurroundChars == {"]", QT, BS}

\* surrounding text: a few characters, or another polls array (decodable or not)
Surround ==
    SeqsUpTo(SurroundChars, MaxSurround)
        \cup {Block(TRUE, TRUE, ArrObj), Block(FALSE, FALSE, ArrRec),
              Block(TRUE, TRUE, ArrOpen), Block(TRUE, TRUE, ArrBad)}

E2ETexts == {pre \o AcmeText \o suf : pre \in Surround, suf \in Surround}

----------------------------------------------------------------------------
(* Arrays whose strings hold brackets, quotes and backslashes; nested arrays *)

MaxStr == 3

StrChars == {"[", "]", QT, BS, "a"}

StrValues == SeqsUpTo(StrChars, MaxStr)

\* the JSON string literal of the value v: its quotes and backslashes backslash-escaped
StrLit(v) == <<QT>> \o Escape(v) \o <<QT>>

\* what follows the string in the array: "]" or ",{}]"
StrTails == { <<"]">>, <<",", "{", "}", "]">> }

\* the well-formed array [v] or [v,{}]
StrArr(v, tl) == <<"[">> \o StrLit(v) \o tl

\* the anchor of form f followed by the array in the same form
StrText(f, v, tl) == Block(f, f, StrArr(v, tl))

\* [{"polls":[{}]}]: an array that holds a polls array of its own
ArrNest == <<"[", "{">> \o UnAnchor \o <<"{", "}", "]", "}", "]">>

\* [{"x":"\"polls\":[{}]"}]: an array with a string that reads as an escaped polls array
ArrQuoted ==
    <<"[", "{", QT, "x", QT, ":">> \o StrLit(UnAnchor \o <<"{", "}", "]">>) \o <<"}", "]">>

NestTexts ==
    {Block(f, f, a) \o t : f \in BOOLEAN, a \in {ArrNest, ArrQuoted},
                           t \in {<<>>, Block(FALSE, FALSE, ArrRec), Block(TRUE, TRUE, ArrObj)}}

\* two or three arrays in a row, and arrays that are cut short or do not parse
RowTexts ==
    {Block(f, f, ArrObj) \o Junk \o Block(g, g, ArrRec) \o t :
        f \in BOOLEAN, g \in BOOLEAN, t \in {<<>>, Block(TRUE, TRUE, ArrMix)}}
        \cup {Block(TRUE, TRUE, ArrOpen), Block(FALSE, FALSE, ArrBad), Junk}

StrTexts == {StrText(f, v, tl) : f \in BOOLEAN, v \in StrValues, tl \in StrTails}

----------------------------------------------------------------------------
(* The state machine *)

\* the state in which extract_poll_table calls extract_all_polls(t)
Start(t) ==
    /\ text = t
    /\ pc = "call"
    /\ start_pos = 0
    /\ all_polls = <<>>
    /\ table_num = 1
    /\ polls_start = -1
    /\ array_start = 0
    /\ escaped = FALSE
    /\ bracket_count = 0
    /\ in_string = FALSE
    /\ i = 0
    /\ ret = NotFound
    /\ result = NoneVal
    /\ path = ""
    /\ out = <<>>
    /\ spans = <<>>
    /\ rt_in = <<>>
    /\ rt_esc = <<>>
    /\ rt_out = <<>>
    /\ fm_in = <<>>
    /\ rows = Done(<<>>)

Init ==
    \/ \E t \in DocTexts : Start(t)
    \/ \E t \in ScanTexts : Start(t)

\* the documents alone
DocInit == \E t \in DocTexts : Start(t)

\* arrays with brackets, quotes and backslashes in their strings, and nested arrays
StrInit ==
    \/ \E t \in StrTexts : Start(t)
    \/ \E t \in NestTexts : Start(t)
    \/ \E t \in RowTexts : Start(t)

\* the example in its surroundings
E2EInit == \E t \in E2ETexts : Start(t)

rtvars == <<rt_in, rt_esc, rt_out>>

fmvars == <<fm_in, rows>>

aggvars == <<start_pos, all_polls, table_num, result, path>>

\* extract_json_polls(html_content, start_pos): an anchor is found
LocateFound ==
    /\ pc = "call"
    /\ LET l == Locate(text, start_pos)
       IN  /\ l.polls_start # -1
           /\ polls_start' = l.polls_start
           /\ array_start' = l.array_start
           /\ escaped' = l.escaped
           /\ i' = l.array_start
    /\ bracket_count' = 0
    /\ in_string' = FALSE
    /\ pc' = "scan"
    /\ UNCHANGED <<text, aggvars, ret, out, spans, rtvars, fmvars>>

\* extract_json_polls(html_content, start_pos): neither anchor is found
LocateNotFound ==
    /\ pc = "call"
    /\ Locate(text, start_pos).polls_start = -1
    /\ polls_start' = -1
    /\ array_start' = 0
    /\ escaped' = FALSE
    /\ i' = 0
    /\ bracket_count' = 0
    /\ in_string' = FALSE
    /\ ret' = NotFound
    /\ pc' = "ret"
    /\ UNCHANGED <<text, aggvars, out, spans, rtvars, fmvars>>

\* one turn of the scan loop on an escaped quote
ScanEscapedQuote ==
    /\ pc = "scan"
    /\ i < Len(text)
    /\ EscapedQuoteAt(text, escaped, i)
    /\ in_string' = ~in_string
    /\ i' = i + 2
    /\ UNCHANGED <<text, pc, aggvars, polls_start, array_start, escaped, bracket_count,
                   ret, out, spans, rtvars, fmvars>>

\* a closing test that takes any "]" outside a string for the end of the array
ClosesAtAnyBracket ==
    /\ ~FlagAfter(text, escaped, in_string, i)
    /\ At(text, i) = "]"

\* the array is closed by the character at i
Closes == LET ins == FlagAfter(text, escaped, in_string, i)
          IN  /\ ~ins
              /\ At(text, i) = "]"
              /\ CountAfter(At(text, i), ins, bracket_count) = 0

\* one turn of the scan loop on any other character that does not close the array
ScanChar ==
    /\ pc = "scan"
    /\ i < Len(text)
    /\ ~EscapedQuoteAt(text, escaped, i)
    /\ ~Closes
    /\ in_string' = FlagAfter(text, escaped, in_string, i)
    /\ bracket_count' = CountAfter(At(text, i), in_string', bracket_count)
    /\ i' = i + 1
    /\ UNCHANGED <<text, pc, aggvars, polls_start, array_start, escaped, ret, out, spans,
                   rtvars, fmvars>>

\* the turn of the scan loop that closes the array: the span parses
ScanCloseDecoded ==
    /\ pc = "scan"
    /\ i < Len(text)
    /\ ~EscapedQuoteAt(text, escaped, i)
    /\ Closes
    /\ LET parsed == JsonLoads(JsonStr(Slice(text, array_start, i + 1), escaped))
       IN  /\ parsed.ok
           /\ ret' = ReturnAfterClose(parsed, i)
    /\ in_string' = FlagAfter(text, escaped, in_string, i)
    /\ bracket_count' = CountAfter(At(text, i), in_string', bracket_count)
    /\ spans' = Append(spans, <<array_start, i + 1, escaped>>)
    /\ pc' = "ret"
    /\ UNCHANGED <<text, aggvars, polls_start, array_start, escaped, i, out, rtvars, fmvars>>

\* the turn of the scan loop that closes the array: json.loads raises
ScanCloseParseError ==
    /\ pc = "scan"
    /\ i < Len(text)
    /\ ~EscapedQuoteAt(text, escaped, i)
    /\ Closes
    /\ LET parsed == JsonLoads(JsonStr(Slice(text, array_start, i + 1), escaped))
       IN  /\ ~parsed.ok
           /\ ret' = ReturnAfterClose(parsed, i)
    /\ in_string' = FlagAfter(text, escaped, in_string, i)
    /\ bracket_count' = CountAfter(At(text, i), in_string', bracket_count)
    /\ out' = Append(out, ParseErrorLine)
    /\ pc' = "ret"
    /\ UNCHANGED <<text, aggvars, polls_start, array_start, escaped, i, spans, rtvars, fmvars>>

\* the scan loop runs off the end of the text
ScanEof ==
    /\ pc = "scan"
    /\ i >= Len(text)
    /\ ret' = NotFound
    /\ pc' = "ret"
    /\ UNCHANGED <<text, aggvars, polls_start, array_start, escaped, bracket_count,
                   in_string, i, out, spans, rtvars, fmvars>>

\* extract_all_polls: the call returned a list
AggExtend ==
    /\ pc = "ret"
    /\ ~ret.polls.none
    /\ out' = Append(out, TableLine(table_num, Len(ret.polls.items)))
    /\ all_polls' = all_polls \o ret.polls.items
    /\ table_num' = table_num + 1
    /\ start_pos' = ret.end
    /\ pc' = "call"
    /\ UNCHANGED <<text, result, path, polls_start, array_start, escaped, bracket_count,
                   in_string, i, ret, spans, rtvars, fmvars>>

\* extract_all_polls: the call returned None
AggBreak ==
    /\ pc = "ret"
    /\ ret.polls.none
    /\ result' = ReturnAll(all_polls)
    /\ pc' = "returned"
    /\ UNCHANGED <<text, start_pos, all_polls, table_num, path, polls_start, array_start,
                   escaped, bracket_count, in_string, i, ret, out, spans, rtvars, fmvars>>

\* extract_poll_table: polls_data is truthy, the rows come from the embedded JSON
TableFromJson ==
    /\ pc = "returned"
    /\ Truthy(result)
    /\ path' = "json"
    /\ rows' = FormatPollsData(result.items)
    /\ pc' = "done"
    /\ UNCHANGED <<text, start_pos, all_polls, table_num, result, polls_start, array_start,
                   escaped, bracket_count, in_string, i, ret, out, spans, rtvars, fm_in>>

\* extract_poll_table: polls_data is falsy, the <table> fallback runs
TableFallback ==
    /\ pc = "returned"
    /\ ~Truthy(result)
    /\ path' = "fallback"
    /\ pc' = "done"
    /\ UNCHANGED <<text, start_pos, all_polls, table_num, result, polls_start, array_start,
                   escaped, bracket_count, in_string, i, ret, out, spans, rtvars, fmvars>>

Next ==
    \/ LocateFound
    \/ LocateNotFound
    \/ ScanEscapedQuote
    \/ ScanChar
    \/ ScanCloseDecoded
    \/ ScanCloseParseError
    \/ ScanEof
    \/ AggExtend
    \/ AggBreak
    \/ TableFromJson
    \/ TableFallback

Spec == Init /\ [][Next]_vars

E2ESpec == E2EInit /\ [][Next]_vars

StrSpec == StrInit /\ [][Next]_vars

\* the program is sequential and runs until it returns
FairSpec == DocInit /\ [][Next]_vars /\ WF_vars(Next)

----------------------------------------------------------------------------
(* The round trip of the un-escaping, on strings of its own *)

RtInit ==
    /\ rt_in \in RTStrings
    /\ rt_esc = <<>>
    /\ rt_out = <<>>
    /\ pc = "rt_start"
    /\ text = <<>>
    /\ start_pos = 0
    /\ all_polls = <<>>
    /\ table_num = 1
    /\ polls_start = -1
    /\ array_start = 0
    /\ escaped = FALSE
    /\ bracket_count = 0
    /\ in_string = FALSE
    /\ i = 0
    /\ ret = NotFound
    /\ result = NoneVal
    /\ path = ""
    /\ out = <<>>
    /\ spans = <<>>
    /\ fm_in = <<>>
    /\ rows = Done(<<>>)

pipevars == <<text, aggvars, polls_start, array_start, escaped, bracket_count, in_string,
              i, ret, out, spans>>

\* the string is written in the escaped form
RtEscape ==
    /\ pc = "rt_start"
    /\ rt_esc' = Escape(rt_in)
    /\ pc' = "rt_escaped"
    /\ UNCHANGED <<rt_in, rt_out, pipevars, fmvars>>

\* the decoder un-escapes it
RtUnescape ==
    /\ pc = "rt_escaped"
    /\ rt_out' = JsonStr(rt_esc, TRUE)
    /\ pc' = "rt_done"
    /\ UNCHANGED <<rt_in, rt_esc, pipevars, fmvars>>

RtNext == RtEscape \/ RtUnescape

RtSpec == RtInit /\ [][RtNext]_vars

----------------------------------------------------------------------------
(* format_polls_data on records of its own *)

FmtInit ==
    /\ fm_in \in FmtInputs
    /\ rows = Done(<<>>)
    /\ pc = "fm_start"
    /\ rt_in = <<>>
    /\ rt_esc = <<>>
    /\ rt_out = <<>>
    /\ text = <<>>
    /\ start_pos = 0
    /\ all_polls = <<>>
    /\ table_num = 1
    /\ polls_start = -1
    /\ array_start = 0
    /\ escaped = FALSE
    /\ bracket_count = 0
    /\ in_string = FALSE
    /\ i = 0
    /\ ret = NotFound
    /\ result = NoneVal
    /\ path = ""
    /\ out = <<>>
    /\ spans = <<>>

\* format_polls_data(polls) returns
FmtReturn ==
    /\ pc = "fm_start"
    /\ ~FormatPollsData(fm_in).raised
    /\ rows' = FormatPollsData(fm_in)
    /\ pc' = "fm_done"
    /\ UNCHANGED <<fm_in, pipevars, rtvars>>

\* format_polls_data(polls) raises
FmtRaise ==
    /\ pc = "fm_start"
    /\ FormatPollsData(fm_in).raised
    /\ rows' = Raised
    /\ pc' = "fm_raised"
    /\ UNCHANGED <<fm_in, pipevars, rtvars>>

FmtNext == FmtReturn \/ FmtRaise

FmtSpec == FmtInit /\ [][FmtNext]_vars

----------------------------------------------------------------------------
(* Properties *)

\* the records a returned value holds (None holds none)
Records(v) == v.items

\* the last call of extract_json_polls found an anchor and its scan closed the array at i
ScanSucceeded == pc = "ret" /\ polls_start # -1 /\ i < Len(text)

\* the last call found an anchor and its scan ran off the end of the text
EofFault == pc \in {"ret", "returned", "done"} /\ polls_start # -1 /\ i >= Len(text)

\* the last call found an anchor, closed the array, and json.loads raised
ParseFault ==
    pc \in {"ret", "returned", "done"} /\ polls_start # -1 /\ i < Len(text) /\ ret.polls.none

\* the object elements a span decodes to
SpanObjects(sp) ==
    LET parsed == JsonLoads(JsonStr(Slice(text, sp[1], sp[2]), sp[3]))
    IN  SelectSeq(parsed.val.kids, LAMBDA p : p.t = "obj")

RECURSIVE SpanRecords(_)
SpanRecords(sps) == IF sps = <<>> THEN <<>> ELSE SpanObjects(Head(sps)) \o SpanRecords(Tail(sps))

\* the quote-toggle rule of a mode, read on the span alone
ToggleAt(s, esc, k) ==
    IF esc THEN MatchAt(s, <<BS, QT>>, k)
    ELSE At(s, k) = QT /\ ~(k > 0 /\ At(s, k - 1) = BS)

TogglesBefore(s, esc, k) == Cardinality({j \in 0..(k - 1) : ToggleAt(s, esc, j)})

CountOutside(s, esc, c) ==
    Cardinality({k \in 0..(Len(s) - 1) : At(s, k) = c /\ TogglesBefore(s, esc, k) % 2 = 0})

CountAll(s, c) == Cardinality({k \in 0..(Len(s) - 1) : At(s, k) = c})

\* C1: whenever the boundary scan succeeds with the span [array_start, i + 1), in
\* either mode, the span holds as many "[" as "]" outside string literals (as the
\* mode's quote rule delimits them) and no string literal is open at its end.
C1_Balance ==
    ScanSucceeded =>
        LET s == Slice(text, array_start, i + 1)
        IN  /\ CountOutside(s, escaped, "[") = CountOutside(s, escaped, "]")
            /\ TogglesBefore(s, escaped, Len(s)) % 2 = 0
            /\ ~in_string
            /\ bracket_count = 0

\* C1 witness: an escaped-mode scan succeeded on a span with a "]" inside a string literal
C1_Witness ==
    /\ ScanSucceeded
    /\ escaped
    /\ LET s == Slice(text, array_start, i + 1)
       IN  CountOutside(s, escaped, "]") < CountAll(s, "]")

\* C2: every call that returns a list returns an end offset beyond start_pos, for an
\* anchor that starts at or after start_pos and whose "[" lies beyond start_pos;
\* start_pos only grows; and extract_all_polls returns on every text.
C2_Progress ==
    /\ [](pc = "ret" /\ ~ret.polls.none =>
            /\ ret.end > start_pos
            /\ polls_start >= start_pos
            /\ array_start > start_pos
            /\ ret.end <= Len(text))
    /\ [][start_pos' >= start_pos /\ (pc = "ret" /\ pc' = "call" => start_pos' > start_pos)]_vars
    /\ <>(pc = "done")

\* C2 witness: the loop ran three calls and returned
C2_Witness == pc = "done" /\ table_num = 3 /\ start_pos = Len(text)

\* the text is two well-formed arrays, each written in the form of its own anchor
TwoArrays(f1, a1, f2, a2) == text = Block(f1, f1, a1) \o Block(f2, f2, a2)

Objects(a) == SelectSeq(JsonLoads(a).val.kids, LAMBDA p : p.t = "obj")

\* C3: for a document of two separate well-formed polls arrays, each anchor escaped or
\* not independently of the other, extract_all_polls returns the records of the
\* earlier array followed by those of the later one.
C3_TwoArrays ==
    pc = "done" =>
        \A f1 \in BOOLEAN, f2 \in BOOLEAN, a1 \in WellFormed, a2 \in WellFormed :
            TwoArrays(f1, a1, f2, a2) => Records(result) = Objects(a1) \o Objects(a2)

\* the offsets at or after start_pos where an anchor occurs
AnchorsFrom(pat) == {p \in start_pos..Len(text) : MatchAt(text, pat, p)}

\* C4: the locator chooses the escaped mode iff the escaped anchor occurs at or after
\* start_pos, else the unescaped mode iff the unescaped anchor does, else reports
\* not found; it uses the leftmost occurrence of the chosen form, and array_start is
\* the offset of that anchor's "[".
C4_Locator ==
    pc \in {"scan", "ret"} =>
        LET E == AnchorsFrom(EscAnchor)
            U == AnchorsFrom(UnAnchor)
            found == polls_start # -1
        IN  /\ (found /\ escaped) <=> E # {}
            /\ (found /\ ~escaped) <=> (E = {} /\ U # {})
            /\ ~found <=> (E = {} /\ U = {})
            /\ found =>
                /\ polls_start \in (IF escaped THEN E ELSE U)
                /\ \A p \in (IF escaped THEN E ELSE U) : polls_start <= p
                /\ array_start = polls_start + Len(Anchor(escaped)) - 1
                /\ At(text, array_start) = "["

\* C4 witness: the escaped anchor was chosen although an unescaped one comes before it
C4_Witness ==
    /\ pc = "scan"
    /\ escaped
    /\ \E p \in AnchorsFrom(UnAnchor) : p < polls_start

\* C5: when the scan of the k-th anchor runs off the end of the text, the call
\* returns None, -1 and extract_all_polls stops: what it returns holds exactly the
\* records of the k-1 arrays decoded before.
C5_Truncated ==
    /\ EofFault => ret = NotFound /\ Len(spans) = table_num - 1
    /\ pc \in {"returned", "done"} /\ EofFault =>
            /\ Records(result) = SpanRecords(spans)
            /\ Records(result) = all_polls

\* C5 witness: a truncated second array after a first array that gave a record
C5_Witness == pc = "done" /\ EofFault /\ table_num = 2 /\ Len(Records(result)) > 0

\* the decoded spans whose records extract_all_polls has taken over
Merged == IF pc = "ret" /\ ~ret.polls.none THEN SubSeq(spans, 1, Len(spans) - 1) ELSE spans

\* C6: when a captured span does not parse, extract_all_polls stops at it: nothing is
\* printed or decoded after the parse error, and what it returns is exactly the
\* decoded, filtered arrays of the spans before it; at every moment the accumulated
\* records are the whole arrays of the decoded spans.
C6_DecodeFatal ==
    /\ all_polls = SpanRecords(Merged)
    /\ \A k \in 1..Len(out) :
            out[k] = ParseErrorLine => k = Len(out) /\ ParseFault
    /\ ParseFault =>
            /\ ret = NotFound
            /\ out # <<>> /\ out[Len(out)] = ParseErrorLine
            /\ \A k \in 1..Len(spans) : spans[k][2] <= polls_start
    /\ pc \in {"returned", "done"} /\ ParseFault => Records(result) = SpanRecords(spans)

\* C6 witness: the run stopped at a span that does not parse, with an anchor after it
C6_Witness ==
    /\ pc = "done"
    /\ ParseFault
    /\ \E p \in (i + 1)..Len(text) : MatchAt(text, EscAnchor, p) \/ MatchAt(text, UnAnchor, p)

\* C7: when the scan runs off the end of the text with the array open, what the call
\* gives back (its return value, or a line it prints) differs from what it gives
\* back when there is no anchor left.
C7_Surfaced ==
    pc = "ret" /\ EofFault =>
        \/ ret # NotFound
        \/ out # <<>> /\ out[Len(out)].kind # "table"

\* C8: un-escaping the escaped form of a string gives the string back, and the
\* decoder reads from the escaped form of an array the objects it reads from the
\* array itself.
C8_RoundTrip ==
    pc = "rt_done" =>
        /\ rt_out = rt_in
        /\ ReturnAfterClose(JsonLoads(rt_out), 0) = ReturnAfterClose(JsonLoads(rt_in), 0)
        /\ rt_in \in WellFormed =>
                Records(ReturnAfterClose(JsonLoads(rt_out), 0).polls) = Objects(rt_in)

\* C8 witness: a string with a backslash before a quote went through the round trip
C8_Witness ==
    /\ pc = "rt_done"
    /\ \E k \in 1..(Len(rt_in) - 1) : rt_in[k] = BS /\ rt_in[k + 1] = QT
    /\ Len(rt_esc) > Len(rt_in) + 2

\* C9: the decoder returns exactly the object elements of the parsed array, in their
\* original order.
C9_Filter ==
    pc = "ret" /\ ~ret.polls.none =>
        LET arr == JsonLoads(JsonStr(Slice(text, array_start, i + 1), escaped)).val.kids
            idx == {k \in 1..Len(arr) : arr[k].t = "obj"}
            res == ret.polls.items
        IN  /\ Len(res) = Cardinality(idx)
            /\ \A k \in idx : res[Cardinality({m \in idx : m <= k})] = arr[k]

\* C9 witness: an array of two different objects with non-objects around them was decoded
C9_Witness ==
    /\ pc = "ret"
    /\ ~ret.polls.none
    /\ Len(ret.polls.items) = 2
    /\ ret.polls.items[1] # ret.polls.items[2]
    /\ i + 1 - array_start = Len(ArrMix)

NoAnchor == Find(text, EscAnchor, 0) = -1 /\ Find(text, UnAnchor, 0) = -1

\* C10: for a text with no anchor of either form extract_all_polls yields an empty
\* sequence and extract_poll_table goes on to the <table> fallback; the fallback is
\* taken only when no record was recovered.
C10_EmptySequence ==
    /\ pc = "done" /\ NoAnchor => result = Some(<<>>) /\ path = "fallback"
    /\ path = "fallback" => all_polls = <<>>

\* the candidate list of a record is a list of dicts whose names, where present, are strings
WellTyped(poll) ==
    Has(poll, KeyCandidate) =>
        LET c == Get(poll, KeyCandidate, EmptyList)
        IN  /\ c.t = "arr"
            /\ \A n \in 1..Len(c.kids) :
                    /\ c.kids[n].t = "obj"
                    /\ Get(c.kids[n], KeyName, EmptyStr).t = "str"

\* the candidate entries of a record, none when the field is absent
EntriesOf(poll) == Get(poll, KeyCandidate, EmptyList).kids

NameOf(e) == ToLower(Get(e, KeyName, EmptyStr).s)

IsApprove(e) == Contains(NameOf(e), WordApprove) /\ ~Contains(NameOf(e), WordDisapprove)

IsDisapprove(e) == Contains(NameOf(e), WordDisapprove)

\* the value of the first entry of es that Is, '' when there is none
FirstValue(es, Is(_)) ==
    IF \E n \in 1..Len(es) : Is(es[n])
    THEN Get(es[CHOOSE n \in 1..Len(es) : Is(es[n]) /\ \A m \in 1..(n - 1) : ~Is(es[m])],
             KeyValue, EmptyStr)
    ELSE EmptyStr

\* the values of the entries of es that Is, '' when there is none
MatchValues(es, Is(_)) ==
    IF \E n \in 1..Len(es) : Is(es[n])
    THEN {Get(es[n], KeyValue, EmptyStr) : n \in {m \in 1..Len(es) : Is(es[m])}}
    ELSE {EmptyStr}

\* C11: for every record, approve is the value of the first entry whose lower-cased
\* name contains "approve" but not "disapprove", and disapprove the value of the
\* first entry whose lower-cased name contains "disapprove"; later entries of the
\* same category change nothing.
C11_FirstMatch ==
    pc = "fm_done" =>
        \A k \in 1..Len(fm_in) :
            /\ rows.val[k][4] = FirstValue(EntriesOf(fm_in[k]), IsApprove)
            /\ rows.val[k][5] = FirstValue(EntriesOf(fm_in[k]), IsDisapprove)

\* the value a present field has, '' for an absent one
FieldOr(poll, key) == IF Has(poll, key) THEN Get(poll, key, NullNode) ELSE EmptyStr

\* C12: for records with any of the fields absent (and the candidate list, where
\* present, a list of dicts with string names) format_polls_data does not raise and
\* gives one row of six fields per record, in input order, every absent field '';
\* pollster is pollster_group_name only when pollster is absent.
C12_Total ==
    pc \in {"fm_done", "fm_raised"} /\ (\A k \in 1..Len(fm_in) : WellTyped(fm_in[k])) =>
        /\ pc = "fm_done"
        /\ ~rows.raised
        /\ Len(rows.val) = Len(fm_in)
        /\ \A k \in 1..Len(fm_in) :
            LET p == fm_in[k]
                row == rows.val[k]
                sp == Get(p, KeySpread, EmptyDict)
            IN  /\ Len(row) = 6
                /\ row[1] = (IF Has(p, KeyPollster) THEN Get(p, KeyPollster, NullNode)
                             ELSE FieldOr(p, KeyGroup))
                /\ row[2] = FieldOr(p, KeyDate)
                /\ row[3] = FieldOr(p, KeySample)
                /\ row[4] \in MatchValues(EntriesOf(p), IsApprove)
                /\ row[5] \in MatchValues(EntriesOf(p), IsDisapprove)
                /\ row[6] = (IF sp.t = "obj" THEN FieldOr(sp, KeyValue) ELSE EmptyStr)

\* C12 witness: two different records, the first without pollster but with
\* pollster_group_name and without date, sampleSize and spread, gave two rows
C12_Witness ==
    /\ pc = "fm_done"
    /\ Len(fm_in) = 2
    /\ fm_in[1] # fm_in[2]
    /\ ~Has(fm_in[1], KeyPollster) /\ Has(fm_in[1], KeyGroup) /\ ~Has(fm_in[1], KeyDate)
    /\ Has(fm_in[2], KeyPollster)
    /\ Len(rows.val) = 2

\* the row Acme, 2024-01-01, 500, 45, 50, -5
AcmeRow ==
    <<Str(<<"A", "c", "m", "e">>), Str(<<"2", "0", "2", "4", "-", "0", "1", "-", "0", "1">>),
      Num(<<"5", "0", "0">>), Num(<<"4", "5">>), Num(<<"5", "0">>), Num(<<"-", "5">>)>>

\* the anchors of the text, of either form
AnchorsIn(t) == {p \in 0..Len(t) : MatchAt(t, EscAnchor, p) \/ MatchAt(t, UnAnchor, p)}

\* C13 as stated: the example embedded in arbitrary surrounding text yields
\* exactly the one row Acme, 2024-01-01, 500, 45, 50, -5.
C13_AnySurrounding == pc = "done" => path = "json" /\ rows = Done(<<AcmeRow>>)

\* C13, amended: the example embedded in surrounding text that holds no polls anchor
\* of either form yields exactly the one row Acme, 2024-01-01, 500, 45, 50, -5.
C13_Example ==
    pc = "done" /\ Cardinality(AnchorsIn(text)) = 1 =>
        path = "json" /\ rows = Done(<<AcmeRow>>)

\* C13 witness: the example was extracted from between two non-empty texts without anchor
C13_Witness ==
    /\ pc = "done"
    /\ Cardinality(AnchorsIn(text)) = 1
    /\ \E pre \in Surround, suf \in Surround :
            pre # <<>> /\ suf # <<>> /\ text = pre \o AcmeText \o suf
    /\ Len(rows.val) = 1

\* the texts of one array with a string value: <<text, form, value, offset of the first
\* character of the value, offset after its last character>>
StrCases ==
    {<<StrText(f, v, tl), f, v,
       Len(Anchor(f)) + Len(Render(f, <<QT>>)),
       Len(Anchor(f)) + Len(Render(f, <<QT>>)) + Len(Render(f, Escape(v)))>> :
        f \in BOOLEAN, v \in StrValues, tl \in StrTails}

\* the case of each of these texts
StrCaseOf == [t \in StrTexts |-> CHOOSE c \in StrCases : c[1] = t]

\* the first call of extract_json_polls on the text is under way or has just returned
FirstCall == table_num = 1 /\ pc \in {"scan", "ret"} /\ polls_start = 0

\* C14: on the escaped rendering of a well-formed array whose string value may hold
\* "[", "]", quotes and backslashes, the in-string flag is true exactly on the
\* characters of the string value, and the call returns the offset just past the
\* array's own closing bracket.
C14_EscapedBoundary ==
    FirstCall /\ escaped /\ text \in StrTexts =>
        LET c == StrCaseOf[text]
        IN  /\ pc = "scan" /\ i >= c[4] /\ i < c[5] => in_string
            /\ pc = "scan" /\ (i < c[4] \/ i >= c[5] + 2) => ~in_string
            /\ pc = "ret" => ~ret.polls.none /\ ret.end = Len(text)

\* C15: in an unescaped scan a '"' at i flips the in-string flag iff text[i-1] is no
\* backslash, and nothing else changes the flag; so for a well-formed array whose
\* string holds escaped quotes but no escaped backslash the call returns the offset
\* just past the array's closing bracket, while a string that ends in an escaped
\* backslash leaves the flag set after its closing quote.
C15_QuoteRule ==
    /\ [][pc = "scan" /\ ~escaped /\ i < Len(text) =>
            ((in_string' # in_string) <=> (At(text, i) = QT /\ At(text, i - 1) # BS))]_vars
    /\ [](FirstCall /\ ~escaped /\ text \in StrTexts =>
            LET c == StrCaseOf[text]
            IN  /\ (\A k \in 1..Len(c[3]) : c[3][k] # BS) /\ pc = "ret" =>
                        ~ret.polls.none /\ ret.end = Len(text)
                /\ c[3] # <<>> /\ c[3][Len(c[3])] = BS /\ pc = "scan" /\ i > c[5] =>
                        in_string)

\* C15 witness: an unescaped array whose string holds an escaped quote and a "]" was
\* scanned to its own closing bracket
C15_Witness ==
    /\ FirstCall
    /\ pc = "ret"
    /\ ret.end = Len(text)
    /\ ~escaped
    /\ text \in StrTexts
    /\ LET v == StrCaseOf[text][3]
       IN  \E k \in 1..(Len(v) - 1) : v[k] = QT /\ v[k + 1] = "]"

\* for each character of the span s, whether it lies outside the string literals that
\* the quote rule of the mode delimits in s
Outside(s, esc) == [k \in 1..Len(s) |-> TogglesBefore(s, esc, k - 1) % 2 = 0] \o <<>>

\* the "[" less the "]" outside string literals among the first j characters of s
DepthAfter(s, outside, j) ==
    Cardinality({k \in 1..j : outside[k] /\ s[k] = "["})
        - Cardinality({k \in 1..j : outside[k] /\ s[k] = "]"})

\* C16: in every scan the depth is at least 1 from the step after the "[" at
\* array_start until the scan returns; the scan closes the array at the first "]"
\* outside a string that brings the depth back to 0, the end returned is that offset
\* plus one, and no shorter prefix of the span is balanced.
C16_FirstClosure ==
    /\ pc = "scan" => (IF i = array_start THEN bracket_count = 0 ELSE bracket_count >= 1)
    /\ EofFault => bracket_count >= 1
    /\ ScanSucceeded =>
            /\ At(text, i) = "]"
            /\ bracket_count = 0
            /\ LET s == Slice(text, array_start, i + 1)
                   outside == Outside(s, escaped)
               IN  /\ \A j \in 1..(Len(s) - 1) : DepthAfter(s, outside, j) >= 1
                   /\ DepthAfter(s, outside, Len(s)) = 0
    /\ pc = "ret" /\ ~ret.polls.none => ret.end = i + 1 /\ At(text, ret.end - 1) = "]"

\* C16 witness: a span with an array nested in it was closed before the end of the text
C16_Witness ==
    /\ ScanSucceeded
    /\ ~ret.polls.none
    /\ ret.end < Len(text)
    /\ CountAll(Slice(text, array_start, ret.end), "]") >= 2

\* the offset of the anchor a decoded span was found at
AnchorOf(sp) == sp[1] - (Len(Anchor(sp[3])) - 1)

\* C17: the spans decoded on one text are non-empty, pairwise disjoint and strictly
\* increasing, each ending at or before the anchor of the next, and the search of a
\* later call starts at or after the end of the last span; so no anchor that lies
\* inside a decoded span is the anchor of a decoded span.
C17_DisjointSpans ==
    /\ \A k \in 1..Len(spans) : AnchorOf(spans[k]) < spans[k][1] /\ spans[k][1] < spans[k][2]
    /\ \A k \in 1..(Len(spans) - 1) : spans[k][2] <= AnchorOf(spans[k + 1])
    /\ spans # <<>> /\ pc = "scan" => spans[Len(spans)][2] <= polls_start
    /\ \A k \in 1..Len(spans), m \in 1..Len(spans) :
            ~(spans[k][1] <= AnchorOf(spans[m]) /\ AnchorOf(spans[m]) < spans[k][2])

\* C17 witness: two spans were decoded on a text whose first array holds a polls
\* anchor of its own
C17_Witness ==
    /\ pc = "done"
    /\ Len(spans) = 2
    /\ \E p \in spans[1][1]..(spans[1][2] - 1) :
            MatchAt(text, EscAnchor, p) \/ MatchAt(text, UnAnchor, p)

\* the documents of an array without object elements followed by a well-formed array,
\* each in the form of its own anchor, with the later array
EmptyFirstCases ==
    {<<Block(f1, f1, a1) \o Block(f2, f2, a2), a2>> :
        f1 \in BOOLEAN, f2 \in BOOLEAN, a1 \in {ArrEmpty, ArrStr}, a2 \in WellFormed}

\* C18: a call that returns an empty list (an empty array, or one with no object
\* element) does not end the loop: extract_all_polls goes on from the end of that
\* array, and the records of a well-formed array after it are returned.
C18_EmptyGoesOn ==
    /\ [][pc = "ret" /\ ~ret.polls.none /\ ret.polls.items = <<>> =>
            /\ pc' = "call"
            /\ start_pos' = ret.end
            /\ table_num' = table_num + 1
            /\ all_polls' = all_polls]_vars
    /\ [](pc = "done" =>
            \A c \in EmptyFirstCases : c[1] = text => Records(result) = Objects(c[2]))

\* C18 witness: the first of two decoded spans gave no record and the run returned
\* the records of the second
C18_Witness ==
    /\ pc = "done"
    /\ Len(spans) = 2
    /\ SpanObjects(spans[1]) = <<>>
    /\ Len(Records(result)) > 0

====
